---- MODULE Spec2Model ----
(***************************************************************************)
(* simple-table-refine: the rule engine (refine_util, row_filter,          *)
(* col_filter), the cell operations (str_ops, transpose) and the refine    *)
(* orchestrator, as a state machine over a heap of row arrays.             *)
(*                                                                         *)
(* JavaScript values are tagged records.  A cell is [k, s]: k is the       *)
(* JavaScript type ("str", "num", "bool") and s the text toString() gives, *)
(* so that === is record equality and == (loose) can differ from it.       *)
(* A string the code takes apart with substr is a sequence of one-         *)
(* character strings.  A row array is a heap entry; a table is a sequence  *)
(* of row ids, so two tables can share a row.  Indices are 0-based as in   *)
(* the source; Row[c + 1] reads JavaScript's row[c].                       *)
(***************************************************************************)
EXTENDS Integers, Sequences, FiniteSets, TLC

VARIABLES heap, input, snapshot, ops, pc, cur, status, result, errArg,
          executed, fed, mutated, combiner, legacy

vars == <<heap, input, snapshot, ops, pc, cur, status, result, errArg,
          executed, fed, mutated, combiner, legacy>>

-----------------------------------------------------------------------------
(* Bounds of the model. *)

MaxRows == 2
MaxCols == 2
MaxOps == 2
MaxStrLen == 3
MaxReports == 4
MaxCells == 4

-----------------------------------------------------------------------------
(* JavaScript values. *)

Undef == [t |-> "undef"]
Num(n) == [t |-> "num", n |-> n]
Arr(a) == [t |-> "arr", a |-> a]
Str(s) == [t |-> "str", s |-> s]
RuleList(r) == [t |-> "rules", r |-> r]

StrCell(x) == [k |-> "str", s |-> x]
NumCell(x) == [k |-> "num", s |-> x]
BoolCell(x) == [k |-> "bool", s |-> x]

(* The four shapes of rule the operations read; an absent attribute is     *)
(* undefined.                                                              *)
IndexRule(i) ==
    [index |-> i, col |-> Undef, row |-> Undef, val |-> Undef, allOf |-> Undef]
ColValRule(c, v) ==
    [index |-> Undef, col |-> c, row |-> Undef, val |-> v, allOf |-> Undef]
RowValRule(r, v) ==
    [index |-> Undef, col |-> Undef, row |-> r, val |-> v, allOf |-> Undef]
AllOfRule(rs) ==
    [index |-> Undef, col |-> Undef, row |-> Undef, val |-> Undef,
     allOf |-> RuleList(rs)]

(* Array.prototype.filter and indexOf(x) != -1. *)
Filter(s, P(_)) == SelectSeq(s, P)
Contains(s, x) == \E i \in 1..Len(s) : s[i] = x

Range(s) == {s[i] : i \in 1..Len(s)}

RECURSIVE SeqsUpTo(_, _)
SeqsUpTo(S, n) ==
    IF n = 0 THEN {<<>>}
    ELSE LET shorter == SeqsUpTo(S, n - 1)
         IN  shorter \cup {Append(s, x) : s \in shorter, x \in S}

-----------------------------------------------------------------------------
(* refine_util *)

ANY_OPT == [t |-> "any"]

(* Number(text) on the characters the model draws strings from: optional   *)
(* surrounding blanks, then decimal digits; the empty or blank text is 0;  *)
(* anything else is NaN.                                                   *)
Digits == <<"0", "1", "2", "3">>
DigitVal(c) == CHOOSE d \in 0..3 : Digits[d + 1] = c
IsDigit(c) == Contains(Digits, c)

RECURSIVE TrimLeft(_)
TrimLeft(s) == IF s # <<>> /\ Head(s) = " " THEN TrimLeft(Tail(s)) ELSE s

RECURSIVE TrimRight(_)
TrimRight(s) ==
    IF s # <<>> /\ s[Len(s)] = " " THEN TrimRight(SubSeq(s, 1, Len(s) - 1))
    ELSE s

RECURSIVE DecimalValue(_)
DecimalValue(s) ==
    IF s = <<>> THEN 0
    ELSE 10 * DecimalValue(SubSeq(s, 1, Len(s) - 1)) + DigitVal(s[Len(s)])

NaN == [nan |-> TRUE, n |-> 0]

ToNumber(s) ==
    LET body == TrimRight(TrimLeft(s))
    IN  IF \A i \in 1..Len(body) : IsDigit(body[i])
        THEN [nan |-> FALSE, n |-> DecimalValue(body)]
        ELSE NaN

(* equalityStrategies: the six keys, two of them with a trailing blank. *)
equalityStrategyKeys ==
    {<<"=", "=">>, <<">", " ">>, <<">", "=">>, <<"<", " ">>, <<"<", "=">>,
     <<"!", "=">>}

(* The comparison a strategy closes over; every comparison with NaN is     *)
(* false but !=, which is true.                                            *)
ApplyStrategy(operator, value, op) ==
    IF value.nan THEN operator = <<"!", "=">>
    ELSE CASE operator = <<"=", "=">> -> op = value.n
           [] operator = <<">", " ">> -> op > value.n
           [] operator = <<">", "=">> -> op >= value.n
           [] operator = <<"<", " ">> -> op < value.n
           [] operator = <<"<", "=">> -> op <= value.n
           [] operator = <<"!", "=">> -> op # value.n

(* createEqualityEvaluator: "null" for a string shorter than three         *)
(* characters; otherwise the table lookup is called at once, which is a    *)
(* TypeError ("throw") when the two characters are not a key, before the   *)
(* undefined check can run.                                                *)
createEqualityEvaluator(inequality) ==
    IF Len(inequality) < 3 THEN [st |-> "null"]
    ELSE LET operator == SubSeq(inequality, 1, 2)
             value == ToNumber(SubSeq(inequality, 3, Len(inequality)))
         IN  IF operator \in equalityStrategyKeys
             THEN [st |-> "fn", operator |-> operator, value |-> value]
             ELSE [st |-> "throw"]

(* A combiner that decides by the result reported last. *)
shouldKeepLastReport(combineWithAnd, clauseResults) ==
    IF clauseResults = <<>> THEN combineWithAnd
    ELSE clauseResults[Len(clauseResults)]

(* A combiner that takes the conjunction whatever its mode. *)
shouldKeepConjunction(combineWithAnd, clauseResults) ==
    ~Contains(clauseResults, FALSE)

(* RuleCombiner.shouldKeep over the reported clause results. *)
shouldKeep(combineWithAnd, clauseResults) ==
    IF combineWithAnd
    THEN ~Contains(clauseResults, FALSE)
    ELSE LET allClausesFailed == ~Contains(clauseResults, TRUE)
         IN  ~allClausesFailed

(* A normalization under which an absent selector selects nothing. *)
prepareListOfIndicesAbsentEmpty(inp) ==
    IF inp = ANY_OPT THEN ANY_OPT
    ELSE IF inp = Undef THEN Arr(<<>>)
    ELSE IF inp.t = "arr" THEN inp
    ELSE Arr(<<inp.n>>)

(* prepareListOfIndices; an index array holds plain numbers. *)
prepareListOfIndices(inp) ==
    IF inp = Undef \/ inp = ANY_OPT THEN ANY_OPT
    ELSE IF inp.t = "arr" THEN inp
    ELSE Arr(<<inp.n>>)

HasIndex(e) == e.index # Undef
HasVal(e) == e.val # Undef
HasAllOf(e) == e.allOf # Undef

(* createKeepIndexChecker, the part that runs when the checker is built:   *)
(* the literal indices pushed to ignoreRows and the evaluators pushed to   *)
(* ignoreRowEvaluators, in rule order.                                     *)
RECURSIVE ignoreRowsOf(_)
ignoreRowsOf(rules) ==
    IF rules = <<>> THEN <<>>
    ELSE LET index == Head(rules).index
         IN  (IF index.t = "arr" THEN index.a
              ELSE IF index.t = "str" THEN <<>>
              ELSE <<index.n>>) \o ignoreRowsOf(Tail(rules))

RECURSIVE ignoreRowEvaluatorsOf(_)
ignoreRowEvaluatorsOf(rules) ==
    IF rules = <<>> THEN <<>>
    ELSE LET index == Head(rules).index
         IN  (IF index.t = "str" THEN <<createEqualityEvaluator(index.s)>>
              ELSE <<>>) \o ignoreRowEvaluatorsOf(Tail(rules))

(* Building the checker throws when building one of its evaluators does. *)
createKeepIndexCheckerThrows(rules) ==
    \E ev \in Range(ignoreRowEvaluatorsOf(Filter(rules, HasIndex))) :
        ev.st = "throw"

(* Calling the checker throws when one of its evaluators is null: the loop *)
(* calls every evaluator, with no early exit.                              *)
keepIndexCheckerThrows(rules, rowIndex) ==
    \E ev \in Range(ignoreRowEvaluatorsOf(Filter(rules, HasIndex))) :
        ev.st = "null"

(* A checker that ignores an index as soon as one evaluator passes. *)
keepIndexCheckerAnyEvaluator(rules, rowIndex) ==
    LET ignoreRowRules == Filter(rules, HasIndex)
        ignoreRows == ignoreRowsOf(ignoreRowRules)
        ignoreRowEvaluators == ignoreRowEvaluatorsOf(ignoreRowRules)
    IN  /\ ~Contains(ignoreRows, rowIndex)
        /\ ~\E i \in 1..Len(ignoreRowEvaluators) :
                ApplyStrategy(ignoreRowEvaluators[i].operator,
                              ignoreRowEvaluators[i].value, rowIndex)

(* A checker that looks at the listed indices only, not at the evaluators. *)
keepIndexCheckerListedOnly(rules, rowIndex) ==
    ~Contains(ignoreRowsOf(Filter(rules, HasIndex)), rowIndex)

(* The checker's result for an index, when nothing throws. *)
keepIndexChecker(rules, rowIndex) ==
    LET ignoreRowRules == Filter(rules, HasIndex)
        ignoreRows == ignoreRowsOf(ignoreRowRules)
        ignoreRowEvaluators == ignoreRowEvaluatorsOf(ignoreRowRules)
    IN  IF Len(ignoreRowRules) = 0 THEN TRUE
        ELSE LET ignoreByIndex == Contains(ignoreRows, rowIndex)
                 numEvaluators == Len(ignoreRowEvaluators)
                 passesEqualityTests ==
                     \A i \in 1..numEvaluators :
                         ApplyStrategy(ignoreRowEvaluators[i].operator,
                                       ignoreRowEvaluators[i].value, rowIndex)
             IN  ~ignoreByIndex /\ (numEvaluators = 0 \/ ~passesEqualityTests)

(* findMaxNumCols; Math.max of no arguments is -Infinity, below every      *)
(* loop bound, which -1 stands for.                                        *)
findMaxNumCols(targetRows) ==
    IF targetRows = <<>> THEN -1
    ELSE CHOOSE m \in {Len(targetRows[i]) : i \in 1..Len(targetRows)} :
             \A i \in 1..Len(targetRows) : Len(targetRows[i]) <= m

-----------------------------------------------------------------------------
(* row_filter *)

(* A value test that, told to look anywhere, looks at the first cell. *)
keepRowValFuncAnyFirst(rule, row) ==
    LET targetVal == rule.val
        targetCols == prepareListOfIndices(rule.col)
    IN  IF targetCols = ANY_OPT
        THEN ~(row # <<>> /\ row[1] = targetVal)
        ELSE ~\E i \in 1..Len(targetCols.a) :
                 LET currentCol == targetCols.a[i]
                     hasCol == Len(row) > currentCol
                 IN  hasCol /\ row[currentCol + 1] = targetVal

(* A value test that looks at the first listed column only. *)
keepRowValFuncFirstListed(rule, row) ==
    LET targetVal == rule.val
        targetCols == prepareListOfIndices(rule.col)
    IN  IF targetCols = ANY_OPT
        THEN ~\E column \in 0..(Len(row) - 1) : row[column + 1] = targetVal
        ELSE ~(/\ targetCols.a # <<>>
               /\ Len(row) > targetCols.a[1]
               /\ row[targetCols.a[1] + 1] = targetVal)

(* One function of createKeepRowValFuncs applied to a row: FALSE (do not   *)
(* keep) when the value is found at a selected column the row has.         *)
keepRowValFunc(rule, row) ==
    LET targetVal == rule.val
        targetCols == prepareListOfIndices(rule.col)
    IN  IF targetCols = ANY_OPT
        THEN ~\E column \in 0..(Len(row) - 1) : row[column + 1] = targetVal
        ELSE ~\E i \in 1..Len(targetCols.a) :
                 LET currentCol == targetCols.a[i]
                     hasCol == Len(row) > currentCol
                 IN  hasCol /\ row[currentCol + 1] = targetVal

(* createRowKeepFunc throws while it builds when an index checker of the   *)
(* list, or of a nested allOf list, does.                                  *)
RECURSIVE createRowKeepFuncThrows(_)
createRowKeepFuncThrows(rules) ==
    \/ createKeepIndexCheckerThrows(rules)
    \/ \E i \in 1..Len(rules) :
           HasAllOf(rules[i]) /\ createRowKeepFuncThrows(rules[i].allOf.r)

(* The built function throws on a row when an index checker it calls      *)
(* does: its own, unless the list has no index rule, and those of the      *)
(* nested functions, all of which it calls.                                *)
RECURSIVE shouldKeepFuncThrows(_, _, _)
shouldKeepFuncThrows(rules, row, rowIndex) ==
    LET hasIgnoreRules == Len(Filter(rules, HasIndex)) > 0
    IN  \/ hasIgnoreRules /\ keepIndexCheckerThrows(rules, rowIndex)
        \/ \E i \in 1..Len(rules) :
               /\ HasAllOf(rules[i])
               /\ shouldKeepFuncThrows(rules[i].allOf.r, row, rowIndex)

(* The function createRowKeepFunc returns, applied to a row. *)
RECURSIVE shouldKeepFunc(_, _, _, _)

(* A keep function that asks the index checker alone whenever the list has *)
(* an index rule.                                                          *)
shouldKeepFuncIndexAlone(rules, combinedWithAnd, row, rowIndex) ==
    LET hasIgnoreRules == Len(Filter(rules, HasIndex)) > 0
        ignoreValueRules == Filter(rules, HasVal)
        ignoreCombinedValueRules == Filter(rules, HasAllOf)
        valueResults ==
            [i \in 1..Len(ignoreValueRules) |->
                keepRowValFunc(ignoreValueRules[i], row)]
        combinedResults ==
            [i \in 1..Len(ignoreCombinedValueRules) |->
                shouldKeepFunc(ignoreCombinedValueRules[i].allOf.r, FALSE,
                               row, rowIndex)]
    IN  IF hasIgnoreRules
        THEN keepIndexChecker(rules, rowIndex)
        ELSE shouldKeep(combinedWithAnd, valueResults \o combinedResults)

shouldKeepFunc(rules, combinedWithAnd, row, rowIndex) ==
    LET hasIgnoreRules == Len(Filter(rules, HasIndex)) > 0
        ignoreValueRules == Filter(rules, HasVal)
        ignoreCombinedValueRules == Filter(rules, HasAllOf)
        valueResults ==
            [i \in 1..Len(ignoreValueRules) |->
                keepRowValFunc(ignoreValueRules[i], row)]
        combinedResults ==
            [i \in 1..Len(ignoreCombinedValueRules) |->
                shouldKeepFunc(ignoreCombinedValueRules[i].allOf.r, FALSE,
                               row, rowIndex)]
        funcResults == valueResults \o combinedResults
    IN  IF ~hasIgnoreRules
        THEN shouldKeep(combinedWithAnd, funcResults)
        ELSE IF Len(funcResults) = 0
        THEN keepIndexChecker(rules, rowIndex)
        ELSE shouldKeep(combinedWithAnd,
                        <<keepIndexChecker(rules, rowIndex)>> \o funcResults)

(* ignoreRowIf on the cells of a table: whether it throws, and otherwise   *)
(* the 0-based indices of the rows pushed to retVal, in order.             *)
ignoreRowIfThrows(targetRows, params) ==
    \/ createRowKeepFuncThrows(params)
    \/ \E rowIndex \in 0..(Len(targetRows) - 1) :
           shouldKeepFuncThrows(params, targetRows[rowIndex + 1], rowIndex)

(* An ignoreRowIf whose top-level combiner is in OR mode. *)
RECURSIVE keptRowIndicesOrMode(_, _, _)
keptRowIndicesOrMode(targetRows, params, rowIndex) ==
    IF rowIndex >= Len(targetRows) THEN <<>>
    ELSE (IF shouldKeepFunc(params, FALSE, targetRows[rowIndex + 1], rowIndex)
          THEN <<rowIndex>> ELSE <<>>)
         \o keptRowIndicesOrMode(targetRows, params, rowIndex + 1)

RECURSIVE keptRowIndices(_, _, _)
keptRowIndices(targetRows, params, rowIndex) ==
    IF rowIndex >= Len(targetRows) THEN <<>>
    ELSE (IF shouldKeepFunc(params, TRUE, targetRows[rowIndex + 1], rowIndex)
          THEN <<rowIndex>> ELSE <<>>)
         \o keptRowIndices(targetRows, params, rowIndex + 1)

-----------------------------------------------------------------------------
(* col_filter *)

(* findColsByVal's checkRows: the columns pushed for one rule over the     *)
(* given rows, row by row and column by column, with repetitions.          *)
RECURSIVE colsWithVal(_, _)
colsWithVal(row, val) ==
    IF row = <<>> THEN <<>>
    ELSE colsWithVal(SubSeq(row, 1, Len(row) - 1), val)
         \o (IF row[Len(row)] = val THEN <<Len(row) - 1>> ELSE <<>>)

RECURSIVE checkRowsByVal(_, _)
checkRowsByVal(currentRule, rows) ==
    IF rows = <<>> THEN <<>>
    ELSE colsWithVal(Head(rows), currentRule.val)
         \o checkRowsByVal(currentRule, Tail(rows))

(* The rows a concrete selector names, in selector order. *)
rowsAt(targetRows, rowIndices) ==
    [i \in 1..Len(rowIndices) |-> targetRows[rowIndices[i] + 1]]

RECURSIVE findColsByVal(_, _)
findColsByVal(valueIndexIgnoreRules, targetRows) ==
    IF valueIndexIgnoreRules = <<>> THEN <<>>
    ELSE LET currentRule == Head(valueIndexIgnoreRules)
             rowIndices == prepareListOfIndices(currentRule.row)
             numRows == Len(targetRows)
             InRange(i) == i < numRows
             matched ==
                 IF rowIndices = ANY_OPT
                 THEN checkRowsByVal(currentRule, targetRows)
                 ELSE checkRowsByVal(currentRule,
                          rowsAt(targetRows, Filter(rowIndices.a, InRange)))
         IN  matched \o findColsByVal(Tail(valueIndexIgnoreRules), targetRows)

(* findColsByCombinedVals' checkRows over the rows a sub-rule selects,     *)
(* given by index: reading .length of a row the table does not have is a   *)
(* TypeError, unless an earlier selected row already returned true.        *)
RECURSIVE checkRowsThrows(_, _, _, _)
checkRowsThrows(targetRows, rowIndices, subRule, colIndex) ==
    IF rowIndices = <<>> THEN FALSE
    ELSE LET i == Head(rowIndices)
         IN  IF i >= Len(targetRows) THEN TRUE
             ELSE LET targetRow == targetRows[i + 1]
                  IN  IF Len(targetRow) > colIndex
                         /\ targetRow[colIndex + 1] = subRule.val
                      THEN FALSE
                      ELSE checkRowsThrows(targetRows, Tail(rowIndices),
                                           subRule, colIndex)

(* checkRows on the selected rows, when it does not throw: true at the     *)
(* first selected row that has the value at the column.                    *)
RECURSIVE checkRows(_, _, _, _)
checkRows(targetRows, rowIndices, subRule, colIndex) ==
    IF rowIndices = <<>> THEN FALSE
    ELSE LET i == Head(rowIndices)
         IN  IF i >= Len(targetRows) THEN FALSE
             ELSE LET targetRow == targetRows[i + 1]
                  IN  IF Len(targetRow) > colIndex
                         /\ targetRow[colIndex + 1] = subRule.val
                      THEN TRUE
                      ELSE checkRows(targetRows, Tail(rowIndices), subRule,
                                     colIndex)

allRowIndices(targetRows) == [i \in 1..Len(targetRows) |-> i - 1]

(* runValueSearchRules: every sub-rule is run, with no early exit. *)
runValueSearchRulesThrows(valueSearchRules, targetRows, colIndex) ==
    \E i \in 1..Len(valueSearchRules) :
        LET subRule == valueSearchRules[i]
            rowIndices == prepareListOfIndices(subRule.row)
        IN  /\ rowIndices # ANY_OPT
            /\ checkRowsThrows(targetRows, rowIndices.a, subRule, colIndex)

runValueSearchRules(valueSearchRules, targetRows, colIndex) ==
    \A i \in 1..Len(valueSearchRules) :
        LET subRule == valueSearchRules[i]
            rowIndices == prepareListOfIndices(subRule.row)
        IN  IF rowIndices = ANY_OPT
            THEN checkRows(targetRows, allRowIndices(targetRows), subRule,
                           colIndex)
            ELSE checkRows(targetRows, rowIndices.a, subRule, colIndex)

(* The ascending sequence of the numbers below n that satisfy P: a for     *)
(* loop that pushes i when P(i).                                           *)
pushWhere(n, P(_)) ==
    LET pushed[k \in 0..n] ==
            IF k = 0 THEN <<>>
            ELSE pushed[k - 1] \o (IF P(k - 1) THEN <<k - 1>> ELSE <<>>)
    IN  IF n <= 0 THEN <<>> ELSE pushed[n]

(* findColsByCombinedVals on a table with a first row; numCols is the      *)
(* first row's length, which the second var numCols assigns over the       *)
(* maximum.                                                                *)
colsToExamineOf(rules, targetRows) ==
    LET indexRules == Filter(rules, HasIndex)
        numCols == Len(targetRows[1])
        Rejected(i) == ~keepIndexChecker(indexRules, i)
    IN  pushWhere(numCols, Rejected)

findColsByCombinedValsThrows(rules, targetRows) ==
    LET valueSearchRules == Filter(rules, HasVal)
        indexRules == Filter(rules, HasIndex)
    IN  \/ targetRows = <<>>
        \/ createKeepIndexCheckerThrows(indexRules)
        \/ /\ Len(indexRules) > 0
           /\ Len(targetRows[1]) > 0
           /\ keepIndexCheckerThrows(indexRules, 0)
        \/ LET colsToExamine == colsToExamineOf(rules, targetRows)
               examineAllCols == Len(colsToExamine) = 0
           IN  \E colIndex \in 0..(Len(targetRows[1]) - 1) :
                   /\ examineAllCols \/ Contains(colsToExamine, colIndex)
                   /\ runValueSearchRulesThrows(valueSearchRules, targetRows,
                                                colIndex)

findColsByCombinedVals(rules, targetRows) ==
    LET valueSearchRules == Filter(rules, HasVal)
        numCols == Len(targetRows[1])
        colsToExamine == colsToExamineOf(rules, targetRows)
        examineAllCols == Len(colsToExamine) = 0
        Matched(colIndex) ==
            /\ examineAllCols \/ Contains(colsToExamine, colIndex)
            /\ runValueSearchRules(valueSearchRules, targetRows, colIndex)
    IN  pushWhere(numCols, Matched)

(* A removal that takes one cell out of the row for every entry of cols,    *)
(* each at the position the entry has in the row as it then stands.        *)
RECURSIVE removeColsOfRowSplice(_, _)
removeColsOfRowSplice(row, cols) ==
    IF cols = <<>> THEN row
    ELSE LET c == Head(cols)
             spliced == IF c < Len(row)
                        THEN SubSeq(row, 1, c) \o SubSeq(row, c + 2, Len(row))
                        ELSE row
         IN  removeColsOfRowSplice(spliced, Tail(cols))

(* removeCols: a new row for every row, without the cells at cols. *)
RECURSIVE removeColsOfRow(_, _)
removeColsOfRow(row, cols) ==
    IF row = <<>> THEN <<>>
    ELSE removeColsOfRow(SubSeq(row, 1, Len(row) - 1), cols)
         \o (IF ~Contains(cols, Len(row) - 1) THEN <<row[Len(row)]>> ELSE <<>>)

removeCols(targetRows, cols) ==
    [r \in 1..Len(targetRows) |-> removeColsOfRow(targetRows[r], cols)]

(* ignoreColIf: the column indices collected from the index rules, the     *)
(* value rules and the allOf groups, in that order.                        *)
RECURSIVE combinedCols(_, _)
combinedCols(combineRules, targetRows) ==
    IF combineRules = <<>> THEN <<>>
    ELSE findColsByCombinedVals(Head(combineRules).allOf.r, targetRows)
         \o combinedCols(Tail(combineRules), targetRows)

ignoreColIfThrows(targetRows, params) ==
    LET colIndexIgnoreRules == Filter(params, HasIndex)
        combineRules == Filter(params, HasAllOf)
    IN  \/ createKeepIndexCheckerThrows(colIndexIgnoreRules)
        \/ targetRows = <<>>
        \/ /\ targetRows # <<>>
           /\ Len(targetRows[1]) > 0
           /\ Len(colIndexIgnoreRules) > 0
           /\ keepIndexCheckerThrows(colIndexIgnoreRules, 0)
        \/ \E i \in 1..Len(combineRules) :
               findColsByCombinedValsThrows(combineRules[i].allOf.r, targetRows)

colIndicesToIgnore(targetRows, params) ==
    LET colIndexIgnoreRules == Filter(params, HasIndex)
        numCols == Len(targetRows[1])
        Rejected(i) == ~keepIndexChecker(colIndexIgnoreRules, i)
    IN  pushWhere(numCols, Rejected)
        \o findColsByVal(Filter(params, HasVal), targetRows)
        \o combinedCols(Filter(params, HasAllOf), targetRows)

ignoreColIfRows(targetRows, params) ==
    removeCols(targetRows, colIndicesToIgnore(targetRows, params))

-----------------------------------------------------------------------------
(* str_ops *)

ReplaceRule(orig, new, row, col) ==
    [orig |-> orig, new |-> new, row |-> row, col |-> col]

InterpretRule(numbers, bools, row, col) ==
    [numbers |-> numbers, bools |-> bools, row |-> row, col |-> col]

Selects(indices, i) == indices = ANY_OPT \/ Contains(indices.a, i)

(* One replace function on a cell: String.prototype.replace of the whole   *)
(* text gives the new value as a string; a cell that is no string has no   *)
(* replace method, a TypeError.                                            *)
replaceFuncHits(rule, target, rowIndex, colIndex) ==
    /\ Selects(prepareListOfIndices(rule.row), rowIndex)
    /\ Selects(prepareListOfIndices(rule.col), colIndex)
    /\ rule.orig = target

(* The text String.prototype.replace puts in place of the match: the new   *)
(* value as a string, in which $& stands for the matched text and $$ for   *)
(* one dollar sign.                                                        *)
expandReplacement(newText, matched) ==
    CASE newText = "$&" -> matched
      [] newText = "$$" -> "$"
      [] OTHER -> newText

replaceFunc(rule, target, rowIndex, colIndex) ==
    IF replaceFuncHits(rule, target, rowIndex, colIndex)
    THEN StrCell(expandReplacement(rule.new.s, target.s))
    ELSE target

(* runReplaceFuncs: the rules in order on the running value; ThrownCell    *)
(* once a rule hits a value that is no string.                             *)
ThrownCell == [k |-> "throw", s |-> ""]

RECURSIVE runReplaceFuncs(_, _, _, _)
runReplaceFuncs(params, target, rowIndex, colIndex) ==
    IF params = <<>> \/ target = ThrownCell THEN target
    ELSE IF /\ replaceFuncHits(Head(params), target, rowIndex, colIndex)
            /\ target.k # "str"
         THEN ThrownCell
         ELSE runReplaceFuncs(Tail(params),
                  replaceFunc(Head(params), target, rowIndex, colIndex),
                  rowIndex, colIndex)

replaceThrows(targetRows, params) ==
    \E r \in 1..Len(targetRows) : \E c \in 1..Len(targetRows[r]) :
        runReplaceFuncs(params, targetRows[r][c], r - 1, c - 1) = ThrownCell

replaceRows(targetRows, params) ==
    [r \in 1..Len(targetRows) |->
        [c \in 1..Len(targetRows[r]) |->
            runReplaceFuncs(params, targetRows[r][c], r - 1, c - 1)]]

(* The texts of the cell universe that parseInt or parseFloat print back   *)
(* unchanged.                                                              *)
NumericTexts == {"0", "1", "2", "3"}

(* interpretValue: the boolean function, then the number function; the     *)
(* date function, which needs a format string, is not drawn.              *)
interpretBools(bools, cell) ==
    IF bools = Undef THEN cell
    ELSE IF cell = bools.falseVal THEN BoolCell("false")
    ELSE IF cell = bools.trueVal THEN BoolCell("true")
    ELSE cell

interpretNumbers(numbers, cell) ==
    IF numbers /\ cell.k = "str" /\ cell.s \in NumericTexts
    THEN NumCell(cell.s)
    ELSE cell

interpretValue(params, value) ==
    interpretNumbers(params.numbers, interpretBools(params.bools, value))

(* An interpretation that takes every cell of a selected row. *)
interpretStrRowsWholeRow(targetRows, params) ==
    LET rows == prepareListOfIndices(params.row)
    IN  [r \in 1..Len(targetRows) |->
            IF Selects(rows, r - 1)
            THEN [c \in 1..Len(targetRows[r]) |->
                     interpretValue(params, targetRows[r][c])]
            ELSE targetRows[r]]

interpretStrRows(targetRows, params) ==
    LET rows == prepareListOfIndices(params.row)
        cols == prepareListOfIndices(params.col)
    IN  [r \in 1..Len(targetRows) |->
            IF Selects(rows, r - 1)
            THEN [c \in 1..Len(targetRows[r]) |->
                     IF Selects(cols, c - 1)
                     THEN interpretValue(params, targetRows[r][c])
                     ELSE targetRows[r][c]]
            ELSE targetRows[r]]

-----------------------------------------------------------------------------
(* structure_ops *)

(* A column read off the first row alone. *)
columnOfFirstRow(targetRows, colIndex) ==
    IF targetRows # <<>> /\ Len(Head(targetRows)) > colIndex
    THEN <<Head(targetRows)[colIndex + 1]>>
    ELSE <<>>

(* transpose: one new row per column up to the longest row; row c collects *)
(* cell c of every row that has one, in row order.                         *)
RECURSIVE columnOf(_, _)
columnOf(targetRows, colIndex) ==
    IF targetRows = <<>> THEN <<>>
    ELSE (IF Len(Head(targetRows)) > colIndex
          THEN <<Head(targetRows)[colIndex + 1]>> ELSE <<>>)
         \o columnOf(Tail(targetRows), colIndex)

transposeRows(targetRows) ==
    LET numCols == findMaxNumCols(targetRows)
    IN  [c \in 1..numCols |-> columnOf(targetRows, c - 1)]

-----------------------------------------------------------------------------
(* Tables on the heap.  An operation returns the heap it leaves and the    *)
(* table (row ids) it hands to onSuccess.                                  *)

Deref(h, t) == [i \in 1..Len(t) |-> h[t[i]]]

(* Row arrays written over the first rows of the heap. *)
AllocInPlace(h, rows) ==
    [h |-> [i \in 1..(IF Len(h) > Len(rows) THEN Len(h) ELSE Len(rows)) |->
                IF i <= Len(rows) THEN rows[i] ELSE h[i]],
     t |-> [i \in 1..Len(rows) |-> i]]

(* New row arrays, one per row of cells. *)
Alloc(h, rows) ==
    [h |-> h \o rows, t |-> [i \in 1..Len(rows) |-> Len(h) + i]]

(* An ignoreRowIf that puts each row it keeps at the front of retVal. *)
ignoreRowIfUnshift(h, targetRows, params) ==
    LET kept == keptRowIndices(Deref(h, targetRows), params, 0)
    IN  [h |-> h,
         t |-> [i \in 1..Len(kept) |-> targetRows[kept[Len(kept) + 1 - i] + 1]]]

(* row_filter.ignoreRowIf pushes the rows it keeps, themselves, to retVal. *)
ignoreRowIf(h, targetRows, params) ==
    LET kept == keptRowIndices(Deref(h, targetRows), params, 0)
    IN  [h |-> h, t |-> [i \in 1..Len(kept) |-> targetRows[kept[i] + 1]]]

ignoreColIf(h, targetRows, params) ==
    Alloc(h, ignoreColIfRows(Deref(h, targetRows), params))

replace(h, targetRows, params) ==
    Alloc(h, replaceRows(Deref(h, targetRows), params))

interpretStr(h, targetRows, params) ==
    Alloc(h, interpretStrRows(Deref(h, targetRows), params))

transpose(h, targetRows, params) ==
    Alloc(h, transposeRows(Deref(h, targetRows)))

-----------------------------------------------------------------------------
(* simple_table_refine: the orchestrator *)

(* An operation; a param that is an array is RuleList(the array). *)
Operation(name, param) == [operation |-> name, param |-> param]

refineStrategyKeys ==
    {"ignoreRowIf", "ignoreColIf", "replace", "interpretStr", "transpose"}

(* refineStrategies is an object literal, so a name of Object.prototype    *)
(* also resolves to a function: toString, called with the four arguments,  *)
(* returns a string and calls neither callback.                            *)
inheritedStrategyKeys == {"toString"}

(* refineStrategies[operation.operation] *)
strategyOf(name) ==
    IF name \in refineStrategyKeys THEN "own"
    ELSE IF name \in inheritedStrategyKeys THEN "inherited"
    ELSE "undefined"

(* executeOperation throws: calling an undefined strategy is a TypeError,  *)
(* and a strategy's own exception passes through.                          *)
executeOperationThrows(operation, rows) ==
    CASE strategyOf(operation.operation) = "undefined" -> TRUE
      [] operation.operation = "ignoreRowIf" ->
            ignoreRowIfThrows(rows, operation.param.r)
      [] operation.operation = "ignoreColIf" ->
            ignoreColIfThrows(rows, operation.param.r)
      [] operation.operation = "replace" ->
            replaceThrows(rows, operation.param.r)
      [] OTHER -> FALSE

(* executeOperation, when the strategy returns: what it passed to          *)
(* onSuccess.                                                              *)
executeOperation(operation, h, targetRows) ==
    CASE operation.operation = "ignoreRowIf" ->
            ignoreRowIf(h, targetRows, operation.param.r)
      [] operation.operation = "ignoreColIf" ->
            ignoreColIf(h, targetRows, operation.param.r)
      [] operation.operation = "replace" ->
            replace(h, targetRows, operation.param.r)
      [] operation.operation = "interpretStr" ->
            interpretStr(h, targetRows, operation.param)
      [] operation.operation = "transpose" ->
            transpose(h, targetRows, operation.param)

(* A reduction that hands every iterator the table refine was called on. *)
memoForInitial(inputTable, current, position) == inputTable

(* The memo async.reduce hands to the iterator for operation pc. *)
memoFor(inputTable, current, position) == current

(* A reduction that goes on to the next operation past an exception. *)
onIteratorThrowSkip(position) == [status |-> "running", pc |-> position + 1]

(* An iterator that throws: nothing catches the exception, it leaves      *)
(* refine, and the reduction stays at that operation for good.             *)
onIteratorThrow(position) == [status |-> "thrown", pc |-> position]

(* One iteration of async.reduce over operations: executeOperationClosure  *)
(* on the memo and operation pc.  The strategies call onSuccess before     *)
(* they return, so the iteration ends with the memo replaced; none of      *)
(* them calls onError.                                                     *)
ExecuteOperation ==
    /\ status = "running"
    /\ pc <= Len(ops)
    /\ LET operation == ops[pc]
           targetRows == memoFor(input, cur, pc)
           rows == Deref(heap, targetRows)
       IN  /\ executed' = Append(executed, pc)
           /\ fed' = Append(fed, [t |-> targetRows, rows |-> rows])
           /\ IF executeOperationThrows(operation, rows)
              THEN /\ status' = onIteratorThrow(pc).status
                   /\ pc' = onIteratorThrow(pc).pc
                   /\ UNCHANGED <<heap, cur>>
              ELSE IF strategyOf(operation.operation) = "inherited"
              THEN /\ status' = "stalled"
                   /\ UNCHANGED <<heap, cur, pc>>
              ELSE LET out == executeOperation(operation, heap, targetRows)
                   IN  /\ heap' = out.h
                       /\ cur' = out.t
                       /\ pc' = pc + 1
                       /\ UNCHANGED status
    /\ UNCHANGED <<input, snapshot, ops, result, errArg, mutated, combiner,
                   legacy>>

(* A final callback that can be entered again after it has run. *)
FinishAgain ==
    /\ status \in {"running", "success"}
    /\ pc > Len(ops)
    /\ status' = "success"
    /\ result' = cur
    /\ UNCHANGED <<heap, input, snapshot, ops, pc, cur, errArg, executed, fed,
                   mutated, combiner, legacy>>

(* The final callback of async.reduce: error is null, since no strategy    *)
(* reports one, and onSuccess gets the memo.                               *)
Finish ==
    /\ status = "running"
    /\ pc > Len(ops)
    /\ status' = "success"
    /\ result' = cur
    /\ UNCHANGED <<heap, input, snapshot, ops, pc, cur, errArg, executed, fed,
                   mutated, combiner, legacy>>

(* The caller, after onSuccess, writes the first cell of a row of the      *)
(* table it was handed, or of the table it supplied.                       *)
Marker == StrCell("written")

MutateReturnedRow ==
    /\ status = "success"
    /\ mutated = "none"
    /\ \E i \in 1..Len(result) :
           /\ heap[result[i]] # <<>>
           /\ heap' = [heap EXCEPT ![result[i]][1] = Marker]
    /\ mutated' = "returned"
    /\ UNCHANGED <<input, snapshot, ops, pc, cur, status, result, errArg,
                   executed, fed, combiner, legacy>>

MutateOriginalRow ==
    /\ status = "success"
    /\ mutated = "none"
    /\ \E i \in 1..Len(input) :
           /\ heap[input[i]] # <<>>
           /\ heap' = [heap EXCEPT ![input[i]][1] = Marker]
    /\ mutated' = "original"
    /\ UNCHANGED <<input, snapshot, ops, pc, cur, status, result, errArg,
                   executed, fed, combiner, legacy>>

-----------------------------------------------------------------------------
(* Inputs *)

CellVals == {StrCell("a"), StrCell("1")}

RECURSIVE NumCells(_)
NumCells(table) ==
    IF table = <<>> THEN 0 ELSE Len(Head(table)) + NumCells(Tail(table))

(* Tables of at most MaxRows rows of at most MaxCols cells, and of at most *)
(* MaxCells cells in all.                                                  *)
Tables ==
    {t \in SeqsUpTo(SeqsUpTo(CellVals, MaxCols), MaxRows) :
        NumCells(t) <= MaxCells}

RectTables ==
    {t \in Tables : \A i, j \in 1..Len(t) : Len(t[i]) = Len(t[j])}

(* refine(operations, table, onSuccess, onError) has been called: the      *)
(* table's rows are the first heap entries.                                *)
Called(table, operations) ==
    /\ heap = table
    /\ input = [i \in 1..Len(table) |-> i]
    /\ snapshot = table
    /\ ops = operations
    /\ pc = 1
    /\ cur = input
    /\ status = "running"
    /\ result = <<>>
    /\ errArg = Undef
    /\ executed = <<>>
    /\ fed = <<>>
    /\ mutated = "none"
    /\ combiner = Undef
    /\ legacy = Undef

RefineOps ==
    {Operation("ignoreRowIf", RuleList(<<IndexRule(Num(0))>>)),
     Operation("ignoreColIf", RuleList(<<IndexRule(Num(0))>>)),
     Operation("replace",
               RuleList(<<ReplaceRule(StrCell("a"), StrCell("1"), Undef,
                                      Undef)>>)),
     Operation("interpretStr", InterpretRule(TRUE, Undef, Num(1), Undef)),
     Operation("transpose", Undef),
     Operation("bogus", Undef)}

(* A name that refineStrategies has no property for but inherits. *)
InheritedNameOps == {<<Operation("toString", Undef)>>}

Init ==
    \E table \in RectTables :
        \E operations \in SeqsUpTo(RefineOps, MaxOps) \cup InheritedNameOps :
            Called(table, operations)

Next == ExecuteOperation \/ Finish \/ MutateReturnedRow \/ MutateOriginalRow

Spec == Init /\ [][Next]_vars

-----------------------------------------------------------------------------
(* Inputs of the filters: one ignoreRowIf or ignoreColIf on a table whose  *)
(* rows may differ in length.                                              *)

A == StrCell("a")
One == StrCell("1")

(* Value rules on columns; column MaxCols is past the end of every row,    *)
(* and the number 1 is no cell of a table of strings.                      *)
ColRulePool ==
    {ColValRule(Num(0), A), ColValRule(Num(1), One),
     ColValRule(Num(MaxCols), A), ColValRule(Num(0), NumCell("1"))}

ColRuleExtra ==
    {ColValRule(Arr(<<0, 1>>), A), ColValRule(Arr(<<1, MaxCols>>), One),
     ColValRule(Undef, A), ColValRule(ANY_OPT, One)}

ValueRuleLists ==
    {<<r>> : r \in ColRulePool \cup ColRuleExtra}
        \cup {<<r, q>> : r, q \in ColRulePool}

GroupPool ==
    {ColValRule(Num(0), A), ColValRule(Num(1), One), ColValRule(Undef, A),
     ColValRule(Arr(<<0, MaxCols>>), One)}

GroupRuleLists ==
    {<<AllOfRule(<<r>>)>> : r \in GroupPool}
        \cup {<<AllOfRule(<<r, q>>)>> : r, q \in GroupPool}

GreaterEqual1 == Str(<<">", "=", "1">>)
LessEqual1 == Str(<<"<", "=", "1">>)
Less1 == Str(<<"<", " ", "1">>)

IndexRulePool ==
    {IndexRule(Num(0)), IndexRule(Arr(<<0, MaxRows>>)),
     IndexRule(GreaterEqual1), IndexRule(LessEqual1), IndexRule(Less1)}

MixedRuleLists ==
    {<<r>> : r \in IndexRulePool}
        \cup {<<r, q>> : r, q \in IndexRulePool}
        \cup {<<IndexRule(Num(0)), ColValRule(Num(1), One)>>,
              <<ColValRule(Num(0), A), IndexRule(GreaterEqual1)>>,
              <<IndexRule(Less1),
                AllOfRule(<<ColValRule(Num(0), A), ColValRule(Num(1), One)>>)>>,
              <<ColValRule(Num(1), One),
                AllOfRule(<<ColValRule(Num(0), A), ColValRule(Undef, One)>>)>>}

(* Groups with an index rule and value sub-rules. *)
RowIndexGroupRuleLists ==
    {<<AllOfRule(<<IndexRule(i), ColValRule(Num(0), A)>>)>> :
        i \in {Num(0), Arr(<<0, MaxRows>>), GreaterEqual1}}
        \cup {<<AllOfRule(<<IndexRule(Num(1)), ColValRule(Num(0), A),
                            ColValRule(Undef, One)>>)>>,
              <<AllOfRule(<<IndexRule(Num(0))>>)>>,
              <<AllOfRule(<<IndexRule(GreaterEqual1), IndexRule(Less1)>>)>>,
              <<AllOfRule(<<IndexRule(GreaterEqual1), IndexRule(LessEqual1)>>)>>}

RowFilterOps ==
    {Operation("ignoreRowIf", RuleList(rs)) :
        rs \in {<<>>, <<AllOfRule(<<>>)>>} \cup ValueRuleLists
                 \cup GroupRuleLists
                 \cup MixedRuleLists \cup RowIndexGroupRuleLists}

(* Value rules on rows; row MaxRows is past the end of every table. *)
RowRulePool ==
    {RowValRule(Num(0), A), RowValRule(Num(MaxRows), A),
     RowValRule(Arr(<<0, MaxRows>>), One), RowValRule(Undef, One)}

(* Lists that select a column more than once, by rules of the same and of  *)
(* different types.                                                        *)
ColMixedRuleLists ==
    {<<IndexRule(Num(0)), RowValRule(Num(0), A)>>,
     <<RowValRule(Num(0), A), RowValRule(Undef, A)>>,
     <<IndexRule(Num(1)), AllOfRule(<<RowValRule(Undef, One)>>)>>,
     <<IndexRule(Arr(<<0, 0>>)), RowValRule(Undef, One),
       AllOfRule(<<RowValRule(Num(0), A)>>)>>}

(* Groups with an index rule; column MaxCols is past the end of every row. *)
ColIndexGroupRuleLists ==
    {<<AllOfRule(<<IndexRule(i), RowValRule(Undef, A)>>)>> :
        i \in {Num(0), Num(1), Num(MaxCols)}}

ColFilterRuleLists ==
    {<<r>> : r \in RowRulePool}
        \cup {<<AllOfRule(<<r>>)>> : r \in RowRulePool}
        \cup {<<AllOfRule(<<RowValRule(Num(0), A), r>>)>> : r \in RowRulePool}
        \cup {<<IndexRule(Num(0))>>, <<IndexRule(GreaterEqual1)>>,
              <<AllOfRule(<<>>)>>}
        \cup ColMixedRuleLists \cup ColIndexGroupRuleLists

ColFilterOps ==
    {Operation("ignoreColIf", RuleList(rs)) : rs \in ColFilterRuleLists}

InitFilter ==
    \E table \in Tables : \E operation \in RowFilterOps \cup ColFilterOps :
        Called(table, <<operation>>)

NextCall == ExecuteOperation \/ Finish

SpecFilter == InitFilter /\ [][NextCall]_vars

(* Inputs of the index predicate: ignoreRowIf with one index rule that is  *)
(* a string over these characters, on a table of one-cell rows.            *)
Chars == {"=", ">", "<", "!", " ", "1", "x"}

IndexStrings == SeqsUpTo(Chars, MaxStrLen)

IndexTables == {[i \in 1..n |-> <<A>>] : n \in 0..MaxRows}

InitIndex ==
    \E table \in IndexTables : \E str \in IndexStrings :
        Called(table,
               <<Operation("ignoreRowIf", RuleList(<<IndexRule(Str(str))>>))>>)

SpecIndex == InitIndex /\ [][NextCall]_vars

(* Inputs of replace: tables of a string and a number, and rule lists of   *)
(* one rule under each kind of selector, of two rules where the second     *)
(* looks for what the first wrote, of a rule that looks for the number,    *)
(* and of rules whose new value is a number or holds a dollar pattern.     *)
ReplaceCellVals == {StrCell("a"), NumCell("1")}

ReplaceTables == SeqsUpTo(SeqsUpTo(ReplaceCellVals, MaxCols), MaxRows)

ReplaceSelectors ==
    {Undef, ANY_OPT, Num(0), Num(1), Arr(<<0, MaxRows>>), Arr(<<1, MaxCols>>)}

ReplaceRuleLists ==
    {<<ReplaceRule(StrCell("a"), StrCell("b"), r, c)>> :
        r, c \in ReplaceSelectors}
        \cup {<<ReplaceRule(StrCell("a"), StrCell("b"), Undef, Undef),
                ReplaceRule(StrCell("b"), StrCell("c"), r, Undef)>> :
                  r \in {Undef, Num(0)}}
        \cup {<<ReplaceRule(StrCell("b"), StrCell("c"), Undef, Undef),
                ReplaceRule(StrCell("a"), StrCell("b"), Undef, Undef)>>,
              <<ReplaceRule(NumCell("1"), StrCell("a"), Undef, Undef)>>,
              <<ReplaceRule(StrCell("a"), NumCell("2"), Undef, Undef)>>,
              <<ReplaceRule(StrCell("a"), StrCell("$&"), Undef, Undef)>>,
              <<ReplaceRule(StrCell("a"), StrCell("$$"), Undef, Undef)>>}

InitReplace ==
    \E table \in ReplaceTables : \E rs \in ReplaceRuleLists :
        Called(table, <<Operation("replace", RuleList(rs))>>)

SpecReplace == InitReplace /\ [][NextCall]_vars

(* Inputs of interpretStr: number and boolean options, each on or off,     *)
(* under each kind of row and column selector.                             *)
InterpretSelectors == {Undef, ANY_OPT, Num(0), Arr(<<1, MaxRows>>)}

InterpretBools == [falseVal |-> StrCell("a"), trueVal |-> StrCell("1")]

InterpretParams ==
    {InterpretRule(numbers, bools, r, c) :
        numbers \in BOOLEAN, bools \in {Undef, InterpretBools},
        r \in InterpretSelectors, c \in InterpretSelectors}

InitInterpret ==
    \E table \in Tables : \E params \in InterpretParams :
        Called(table, <<Operation("interpretStr", params)>>)

SpecInterpret == InitInterpret /\ [][NextCall]_vars

-----------------------------------------------------------------------------
(* The operations as functions of the cells, and their composition. *)

operationRows(operation, rows) ==
    LET out == executeOperation(operation, rows, [i \in 1..Len(rows) |-> i])
    IN  Deref(out.h, out.t)

RECURSIVE applyAll(_, _)
applyAll(operations, rows) ==
    IF operations = <<>> THEN rows
    ELSE applyAll(Tail(operations), operationRows(Head(operations), rows))

Failed == status \in {"thrown", "error"}

-----------------------------------------------------------------------------
(* What the rules mean, stated on the table. *)

(* The positions below n a selector names; absent and 'any' name all. *)
SelectedIndices(sel, n) ==
    IF sel = Undef \/ sel = ANY_OPT THEN 0..(n - 1)
    ELSE IF sel.t = "arr" THEN Range(sel.a) \cap 0..(n - 1)
    ELSE {sel.n} \cap 0..(n - 1)

ValueFound(rule, row) ==
    \E c \in SelectedIndices(rule.col, Len(row)) : row[c + 1] = rule.val

IndexMeets(index, i) ==
    CASE index.t = "num" -> i = index.n
      [] index.t = "arr" -> i \in Range(index.a)
      [] index.t = "str" ->
            LET ev == createEqualityEvaluator(index.s)
            IN  ev.st = "fn" /\ ApplyStrategy(ev.operator, ev.value, i)

RECURSIVE Meets(_, _, _)
Meets(rule, row, i) ==
    IF HasAllOf(rule)
    THEN \A k \in 1..Len(rule.allOf.r) : Meets(rule.allOf.r[k], row, i)
    ELSE IF HasIndex(rule) THEN IndexMeets(rule.index, i)
    ELSE ValueFound(rule, row)

IsValueRule(rule) == HasVal(rule) /\ ~HasIndex(rule) /\ ~HasAllOf(rule)
IsValueList(rules) == \A k \in 1..Len(rules) : IsValueRule(rules[k])
IsValueGroup(rules) ==
    /\ Len(rules) = 1
    /\ HasAllOf(rules[1]) /\ ~HasIndex(rules[1]) /\ ~HasVal(rules[1])
    /\ Len(rules[1].allOf.r) >= 1
    /\ IsValueList(rules[1].allOf.r)

(* The call is of one operation of that name, which has been executed. *)
Ran(name) ==
    /\ Len(ops) = 1
    /\ ops[1].operation = name
    /\ executed = <<1>>

Returned == status # "thrown" /\ pc = 2

(* ignoreRowIf left row i of the supplied table out of its result. *)
Removed(i) == input[i + 1] \notin Range(cur)

RowIndices == 0..(Len(snapshot) - 1)

(* A selector without the indices at or past n. *)
InRangeOnly(sel, n) ==
    LET Below(i) == i < n
    IN  IF sel = Undef \/ sel = ANY_OPT THEN sel
        ELSE IF sel.t = "arr" THEN Arr(Filter(sel.a, Below))
        ELSE IF sel.n < n THEN sel ELSE Arr(<<>>)

RECURSIVE InRangeRules(_, _, _)
InRangeRules(rules, numRows, numCols) ==
    [k \in 1..Len(rules) |->
        IF HasAllOf(rules[k])
        THEN [rules[k] EXCEPT
                 !.allOf = RuleList(InRangeRules(rules[k].allOf.r, numRows,
                                                 numCols))]
        ELSE [rules[k] EXCEPT !.row = InRangeOnly(rules[k].row, numRows),
                              !.col = InRangeOnly(rules[k].col, numCols)]]

RECURSIVE OnlyValueRules(_)
OnlyValueRules(rules) ==
    \A k \in 1..Len(rules) :
        \/ IsValueRule(rules[k])
        \/ /\ HasAllOf(rules[k]) /\ ~HasIndex(rules[k]) /\ ~HasVal(rules[k])
           /\ OnlyValueRules(rules[k].allOf.r)

(* The rows of a row filter have no column at or past the longest row's    *)
(* length; the columns of a column filter no row at or past the table's.   *)
ColBound(rows) == IF rows = <<>> THEN 0 ELSE findMaxNumCols(rows)

InRangeOperation(operation, rows) ==
    Operation(operation.operation,
              RuleList(InRangeRules(operation.param.r, Len(rows),
                                    ColBound(rows))))

Malformed(str) ==
    \/ Len(str) < 3
    \/ SubSeq(str, 1, 2) \notin equalityStrategyKeys
    \/ ToNumber(SubSeq(str, 3, Len(str))).nan

-----------------------------------------------------------------------------
(* C1: ignoreRowIf with a top-level list of value rules removes a row iff  *)
(* at least one rule's value is found, by strict equality, at one of that  *)
(* rule's selected columns of the row.                                     *)
C1_ValueRulesRemoveOnAnyMatch ==
    (Ran("ignoreRowIf") /\ IsValueList(ops[1].param.r))
        => /\ Returned
           /\ \A i \in RowIndices :
                  Removed(i) <=>
                      \E k \in 1..Len(ops[1].param.r) :
                          ValueFound(ops[1].param.r[k], snapshot[i + 1])

(* Two value rules have run on a table with a row only the second rule     *)
(* matches, which is removed, and a row neither matches, which is kept.    *)
C1_Witness ==
    /\ Ran("ignoreRowIf") /\ Returned
    /\ IsValueList(ops[1].param.r)
    /\ Len(ops[1].param.r) = 2
    /\ \E i, j \in RowIndices :
           /\ ~ValueFound(ops[1].param.r[1], snapshot[i + 1])
           /\ ValueFound(ops[1].param.r[2], snapshot[i + 1])
           /\ Removed(i)
           /\ ~ValueFound(ops[1].param.r[1], snapshot[j + 1])
           /\ ~ValueFound(ops[1].param.r[2], snapshot[j + 1])
           /\ ~Removed(j)

(* C2: ignoreRowIf with one allOf group of value sub-rules removes a row   *)
(* iff every sub-rule of the group matches the row; a row matching only    *)
(* some of them is kept.                                                   *)
C2_GroupRemovesOnAllMatch ==
    (Ran("ignoreRowIf") /\ IsValueGroup(ops[1].param.r))
        => /\ Returned
           /\ \A i \in RowIndices :
                  Removed(i) <=>
                      \A k \in 1..Len(ops[1].param.r[1].allOf.r) :
                          ValueFound(ops[1].param.r[1].allOf.r[k],
                                     snapshot[i + 1])

(* A group of two sub-rules has run on a table with a row that matches     *)
(* both, which is removed, and a row that matches one, which is kept.      *)
C2_Witness ==
    /\ Ran("ignoreRowIf") /\ Returned
    /\ IsValueGroup(ops[1].param.r)
    /\ Len(ops[1].param.r[1].allOf.r) = 2
    /\ \E i, j \in RowIndices :
           /\ ValueFound(ops[1].param.r[1].allOf.r[1], snapshot[i + 1])
           /\ ValueFound(ops[1].param.r[1].allOf.r[2], snapshot[i + 1])
           /\ Removed(i)
           /\ ValueFound(ops[1].param.r[1].allOf.r[1], snapshot[j + 1])
           /\ ~ValueFound(ops[1].param.r[1].allOf.r[2], snapshot[j + 1])
           /\ ~Removed(j)

-----------------------------------------------------------------------------
(* C3: refine applies the operations strictly left to right: they start    *)
(* in list order, one at a time, operation k receives exactly the table    *)
(* the operations before it produced, and the table handed to onSuccess   *)
(* is on(...o2(o1(T))...).                                                 *)
C3_OperationsInOrder ==
    /\ executed = [k \in 1..Len(executed) |-> k]
    /\ Len(executed) \in {pc - 1, pc}
    /\ Len(fed) = Len(executed)
    /\ \A k \in 1..Len(fed) :
           fed[k].rows = applyAll(SubSeq(ops, 1, k - 1), snapshot)
    /\ (status = "success" /\ mutated = "none")
           => Deref(heap, result) = applyAll(ops, snapshot)

(* A call of transpose then interpretStr has succeeded, on a table where   *)
(* the other order gives another result.                                   *)
C3_Witness ==
    /\ status = "success"
    /\ mutated = "none"
    /\ Len(ops) = 2
    /\ ops[1].operation = "transpose"
    /\ ops[2].operation = "interpretStr"
    /\ Deref(heap, result) # applyAll(<<ops[2], ops[1]>>, snapshot)

(* C4: an operation whose name is not one of the five delivers an error    *)
(* through onError, and onSuccess is not invoked.                          *)
C4_UnknownOperationReportsError ==
    \A k \in 1..Len(executed) :
        ops[executed[k]].operation \notin refineStrategyKeys
            => status = "error" /\ errArg # Undef

(* C5: once an operation has failed, no later operation is executed and    *)
(* onSuccess is never invoked.                                             *)
C5_NothingAfterFailure ==
    \A k \in 1..Len(executed) :
        executeOperationThrows(ops[executed[k]], fed[k].rows)
            => /\ k = Len(executed)
               /\ Failed
               /\ result = <<>>

(* An operation has failed with operations of the list still to come. *)
C5_Witness ==
    /\ Failed
    /\ Len(executed) = pc
    /\ pc < Len(ops)

(* C6: the table handed to onSuccess shares no row with the supplied       *)
(* table: writing a returned row does not show in the original, nor the    *)
(* other way round.                                                        *)
C6_NoSharedRows ==
    (status = "success" /\ ops # <<>>)
        => /\ Range(result) \cap Range(input) = {}
           /\ mutated = "returned" => Deref(heap, input) = snapshot
           /\ mutated = "original"
                 => Deref(heap, result) = applyAll(ops, snapshot)

(* C7: no operation mutates its input: the table every operation was       *)
(* given still has the rows and the cells it had when the operation        *)
(* started.                                                                *)
C7_InputUnchanged ==
    mutated = "none"
        => /\ Deref(heap, input) = snapshot
           /\ \A k \in 1..Len(fed) : Deref(heap, fed[k].t) = fed[k].rows

(* Two operations have run, and the table delivered differs from the one   *)
(* supplied.                                                               *)
C7_Witness ==
    /\ status = "success"
    /\ mutated = "none"
    /\ Len(fed) = 2
    /\ fed[2].rows # snapshot
    /\ Deref(heap, result) # fed[2].rows

(* C8: a value rule that selects a row or column at or beyond the table's  *)
(* bounds never throws and never matches, in ignoreRowIf, at the top level *)
(* of ignoreColIf and inside an ignoreColIf allOf group: the filter        *)
(* returns what it returns without the out-of-range indices.               *)
C8_OutOfRangeSkipped ==
    LET inRange == InRangeOperation(ops[1], snapshot)
    IN  (/\ Ran("ignoreRowIf") \/ Ran("ignoreColIf")
         /\ snapshot # <<>>
         /\ OnlyValueRules(ops[1].param.r)
         /\ inRange # ops[1])
            => /\ Returned
               /\ Deref(heap, cur) = operationRows(inRange, snapshot)

(* C9: an index rule whose string is a malformed equality expression       *)
(* matches no index, and neither building nor evaluating the index         *)
(* predicate throws.                                                       *)
C9_MalformedNeverMatches ==
    (/\ Ran("ignoreRowIf")
     /\ Len(ops[1].param.r) = 1
     /\ ops[1].param.r[1].index.t = "str"
     /\ Malformed(ops[1].param.r[1].index.s))
        => /\ Returned
           /\ \A i \in RowIndices : ~Removed(i)

(* C10: ignoreRowIf removes a row iff the row satisfies at least one       *)
(* top-level rule of any kind (index rule, value rule or allOf group),     *)
(* also when the list holds several index rules.                           *)
C10_AnyRuleRemoves ==
    Ran("ignoreRowIf")
        => /\ Returned
           /\ \A i \in RowIndices :
                  Removed(i) <=>
                      \E k \in 1..Len(ops[1].param.r) :
                          Meets(ops[1].param.r[k], snapshot[i + 1], i)

-----------------------------------------------------------------------------
(* What the column rules mean, stated on the table. *)

ColIndices == 0..(ColBound(snapshot) - 1)

(* The value of a {row, val} rule stands at column c of a selected row. *)
ValueFoundInCol(rule, rows, c) ==
    \E r \in SelectedIndices(rule.row, Len(rows)) :
        Len(rows[r + 1]) > c /\ rows[r + 1][c + 1] = rule.val

IndexRejects(rules, c) ==
    \E k \in 1..Len(rules) :
        HasIndex(rules[k]) /\ IndexMeets(rules[k].index, c)

(* Column c satisfies a group: its index rules, if it has any, and every   *)
(* value sub-rule.                                                         *)
GroupMatchesCol(group, rows, c) ==
    /\ \A k \in 1..Len(group) :
           HasIndex(group[k]) => IndexMeets(group[k].index, c)
    /\ \A k \in 1..Len(group) :
           HasVal(group[k]) => ValueFoundInCol(group[k], rows, c)

DropSet(rules, rows) ==
    {c \in 0..(ColBound(rows) - 1) :
        \/ IndexRejects(rules, c)
        \/ \E k \in 1..Len(rules) :
               /\ IsValueRule(rules[k])
               /\ ValueFoundInCol(rules[k], rows, c)
        \/ \E k \in 1..Len(rules) :
               /\ HasAllOf(rules[k])
               /\ GroupMatchesCol(rules[k].allOf.r, rows, c)}

(* The cells of a row at the positions outside a set, in order. *)
WithoutCols(row, cols) ==
    LET Stays(c) == c \notin cols
        kept == pushWhere(Len(row), Stays)
    IN  [k \in 1..Len(kept) |-> row[kept[k] + 1]]

TableWithoutCols(rows, cols) ==
    [r \in 1..Len(rows) |-> WithoutCols(rows[r], cols)]

NoIndexInGroups(rules) ==
    \A k \in 1..Len(rules) :
        HasAllOf(rules[k])
            => \A j \in 1..Len(rules[k].allOf.r) : ~HasIndex(rules[k].allOf.r[j])

(* C11: ignoreColIf drops exactly the columns in the union of the columns  *)
(* its index rules reject, the columns where a top-level {row, val} rule   *)
(* finds its value in a selected in-range row, and the columns an allOf    *)
(* group matches; every other column stays in every row.                   *)
C11_DropsUnion ==
    (Ran("ignoreColIf") /\ Returned /\ NoIndexInGroups(ops[1].param.r))
        => Deref(heap, cur)
               = TableWithoutCols(snapshot, DropSet(ops[1].param.r, snapshot))

(* C12: a column that two or more rules of ignoreColIf select is removed   *)
(* once: the output is the table without the columns of the deduplicated  *)
(* drop set, so no neighbouring column goes in its place.                  *)
C12_DuplicateRemovedOnce ==
    (Ran("ignoreColIf") /\ Returned)
        => LET cols == colIndicesToIgnore(snapshot, ops[1].param.r)
           IN  /\ Deref(heap, cur) = TableWithoutCols(snapshot, Range(cols))
               /\ \A r \in 1..Len(snapshot) :
                      Len(Deref(heap, cur)[r])
                          = Cardinality((0..(Len(snapshot[r]) - 1))
                                            \ Range(cols))

(* An index rule and a value rule have both selected column 0 of a table   *)
(* with a row of two cells, whose second cell is still there.              *)
C12_Witness ==
    /\ Ran("ignoreColIf") /\ Returned
    /\ LET cols == colIndicesToIgnore(snapshot, ops[1].param.r)
       IN  /\ Len(cols) > Cardinality(Range(cols))
           /\ Range(cols) = {0}
           /\ HasIndex(ops[1].param.r[1])
    /\ \E r \in 1..Len(snapshot) :
           /\ Len(snapshot[r]) = 2
           /\ Deref(heap, cur)[r] = <<snapshot[r][2]>>

(* C13: in ignoreColIf an allOf group of {row, val} sub-rules drops a      *)
(* column iff every sub-rule's value is found at that column in one of     *)
(* the sub-rule's selected rows; a column that satisfies only some of the  *)
(* sub-rules is kept.                                                      *)
C13_GroupDropsOnAllFound ==
    (Ran("ignoreColIf") /\ Returned /\ IsValueGroup(ops[1].param.r))
        => Deref(heap, cur)
               = TableWithoutCols(snapshot,
                     {c \in ColIndices :
                         \A k \in 1..Len(ops[1].param.r[1].allOf.r) :
                             ValueFoundInCol(ops[1].param.r[1].allOf.r[k],
                                             snapshot, c)})

(* One allOf group that holds index rules and value sub-rules. *)
IsIndexedGroup(rules) ==
    /\ Len(rules) = 1
    /\ HasAllOf(rules[1]) /\ ~HasIndex(rules[1]) /\ ~HasVal(rules[1])
    /\ \E k \in 1..Len(rules[1].allOf.r) : HasIndex(rules[1].allOf.r[k])
    /\ \E k \in 1..Len(rules[1].allOf.r) : IsValueRule(rules[1].allOf.r[k])
    /\ \A k \in 1..Len(rules[1].allOf.r) : ~HasAllOf(rules[1].allOf.r[k])

(* C14: an ignoreRowIf allOf group with an index rule and value sub-rules   *)
(* never removes a row whose index does not satisfy the index rule, and    *)
(* removes a row whose index satisfies it iff every value sub-rule matches *)
(* the row.                                                                *)
C14_IndexLimitsGroup ==
    (Ran("ignoreRowIf") /\ IsIndexedGroup(ops[1].param.r))
        => LET group == ops[1].param.r[1].allOf.r
               IndexSatisfied(i) ==
                   \A k \in 1..Len(group) :
                       HasIndex(group[k]) => IndexMeets(group[k].index, i)
               ValuesMatch(row) ==
                   \A k \in 1..Len(group) :
                       HasVal(group[k]) => ValueFound(group[k], row)
           IN  /\ Returned
               /\ \A i \in RowIndices :
                      /\ ~IndexSatisfied(i) => ~Removed(i)
                      /\ IndexSatisfied(i)
                            => (Removed(i) <=> ValuesMatch(snapshot[i + 1]))

(* A group with the index rule '>=1' has run on two rows that both match   *)
(* its value sub-rule: row 0 is kept and row 1 is removed.                 *)
C14_Witness ==
    /\ Ran("ignoreRowIf") /\ Returned
    /\ IsIndexedGroup(ops[1].param.r)
    /\ ops[1].param.r[1].allOf.r[1] = IndexRule(GreaterEqual1)
    /\ Len(snapshot) >= 2
    /\ ValueFound(ops[1].param.r[1].allOf.r[2], snapshot[1])
    /\ ValueFound(ops[1].param.r[1].allOf.r[2], snapshot[2])
    /\ ~Removed(0)
    /\ Removed(1)

(* C15: an ignoreColIf allOf group with an index rule removes only columns *)
(* whose index satisfies the index rule; when the index rule selects no    *)
(* column of the table, the group removes none.                            *)
C15_IndexLimitsColGroup ==
    (Ran("ignoreColIf") /\ Returned /\ IsIndexedGroup(ops[1].param.r))
        => LET group == ops[1].param.r[1].allOf.r
               satisfying ==
                   {c \in ColIndices :
                       \A k \in 1..Len(group) :
                           HasIndex(group[k]) => IndexMeets(group[k].index, c)}
           IN  \E dropped \in SUBSET satisfying :
                   Deref(heap, cur) = TableWithoutCols(snapshot, dropped)

(* C16: ignoreColIf counts the columns of a ragged table up to its longest *)
(* row: a column that an index rule, a value rule or a group selects loses *)
(* its cell in every row that has one, also when the first row is shorter. *)
C16_RaggedColumnsRemoved ==
    (Ran("ignoreColIf") /\ Returned /\ NoIndexInGroups(ops[1].param.r))
        => \A r \in 1..Len(snapshot) :
               Len(Deref(heap, cur)[r])
                   <= Len(snapshot[r])
                        - Cardinality(DropSet(ops[1].param.r, snapshot)
                                          \cap 0..(Len(snapshot[r]) - 1))

(* refine([transpose, transpose], T) has called onSuccess. *)
TransposedTwice ==
    /\ Len(ops) = 2
    /\ ops[1].operation = "transpose"
    /\ ops[2].operation = "transpose"
    /\ status = "success"
    /\ mutated = "none"

(* C17, as stated: transpose(transpose(T)) equals T for every rectangular  *)
(* table T, tables with zero rows and tables whose rows have zero cells    *)
(* included.                                                               *)
C17_TransposeInvolution ==
    TransposedTwice => Deref(heap, result) = snapshot

(* C17, amended: transpose(transpose(T)) equals T for every rectangular    *)
(* table T that has zero rows or whose rows have at least one cell; a      *)
(* table of rows with zero cells comes back as the table with zero rows.   *)
C17_TransposeInvolutionOfCells ==
    TransposedTwice
        => IF \A r \in 1..Len(snapshot) : snapshot[r] # <<>>
           THEN Deref(heap, result) = snapshot
           ELSE Deref(heap, result) = <<>>

(* A table of two rows of two cells that differs from its transpose has    *)
(* been transposed twice.                                                  *)
C17_Witness ==
    /\ TransposedTwice
    /\ Len(snapshot) = 2
    /\ Len(snapshot[1]) = 2
    /\ transposeRows(snapshot) # snapshot

(* The row and column selectors of the rules of a list and of its groups. *)
RECURSIVE SelectorsOf(_)
SelectorsOf(rules) ==
    UNION {IF HasAllOf(rules[k])
           THEN SelectorsOf(rules[k].allOf.r)
           ELSE {rules[k].row, rules[k].col} : k \in 1..Len(rules)}

(* The largest index a rule of the universes names is the larger bound. *)
IndexUniverse == 0..(IF MaxRows > MaxCols THEN MaxRows ELSE MaxCols)

C19_ValueRuleColumns ==
    (/\ Ran("ignoreRowIf")
     /\ Len(ops[1].param.r) = 1
     /\ IsValueRule(ops[1].param.r[1]))
        => LET rule == ops[1].param.r[1]
               listed == IF rule.col.t = "arr" THEN Range(rule.col.a)
                         ELSE {rule.col.n}
               Matches(row) ==
                   IF rule.col = Undef \/ rule.col = ANY_OPT
                   THEN \E p \in 1..Len(row) : row[p] = rule.val
                   ELSE \E c \in listed :
                            c < Len(row) /\ row[c + 1] = rule.val
           IN  /\ Returned
               /\ \A i \in RowIndices : Removed(i) <=> Matches(snapshot[i + 1])

(* A rule with col 'any' has removed a row that holds the value in its     *)
(* second cell only and has kept a row of two cells without the value.     *)
C19_Witness ==
    /\ Ran("ignoreRowIf") /\ Returned
    /\ Len(ops[1].param.r) = 1
    /\ IsValueRule(ops[1].param.r[1])
    /\ ops[1].param.r[1].col = ANY_OPT
    /\ \E i, j \in RowIndices :
           /\ Len(snapshot[i + 1]) = 2
           /\ snapshot[i + 1][1] # ops[1].param.r[1].val
           /\ snapshot[i + 1][2] = ops[1].param.r[1].val
           /\ Removed(i)
           /\ Len(snapshot[j + 1]) = 2
           /\ \A p \in 1..2 : snapshot[j + 1][p] # ops[1].param.r[1].val
           /\ ~Removed(j)

(* What replace is to write in a cell: the rules in list order on the      *)
(* running value, each giving its new value when the cell is selected and  *)
(* the value is its orig.                                                  *)
RECURSIVE Rewritten(_, _, _, _)
Rewritten(rules, value, rowIndex, colIndex) ==
    IF rules = <<>> THEN value
    ELSE LET rule == Head(rules)
             selected ==
                 /\ rowIndex \in SelectedIndices(rule.row, rowIndex + 1)
                 /\ colIndex \in SelectedIndices(rule.col, colIndex + 1)
         IN  Rewritten(Tail(rules),
                       IF selected /\ value = rule.orig THEN rule.new
                       ELSE value,
                       rowIndex, colIndex)

(* C20: replace rewrites a cell to a rule's new value iff the cell lies in *)
(* the rule's rows and columns and the whole cell equals the rule's orig,  *)
(* the rules applied in list order to the running value; every other cell  *)
(* is copied and the output has the shape of the input.                    *)
C20_ReplaceRewrites ==
    Ran("replace")
        => /\ Returned
           /\ Deref(heap, cur)
                  = [r \in 1..Len(snapshot) |->
                        [c \in 1..Len(snapshot[r]) |->
                            Rewritten(ops[1].param.r, snapshot[r][c],
                                      r - 1, c - 1)]]

LiteralIndices(rules) ==
    UNION {IF ~HasIndex(rules[k]) THEN {}
           ELSE IF rules[k].index.t = "num" THEN {rules[k].index.n}
           ELSE IF rules[k].index.t = "arr" THEN Range(rules[k].index.a)
           ELSE {} : k \in 1..Len(rules)}

Inequalities(rules) ==
    {rules[k].index.s :
        k \in {j \in 1..Len(rules) :
                 HasIndex(rules[j]) /\ rules[j].index.t = "str"}}

IndexPredicate(rules, i) ==
    /\ i \notin LiteralIndices(rules)
    /\ \/ Inequalities(rules) = {}
       \/ ~\A str \in Inequalities(rules) : IndexMeets(Str(str), i)

OnlyIndexRules(rules) ==
    \A k \in 1..Len(rules) :
        HasIndex(rules[k]) /\ ~HasVal(rules[k]) /\ ~HasAllOf(rules[k])

IsGroupWithIndex(rules) ==
    /\ Len(rules) = 1
    /\ HasAllOf(rules[1]) /\ ~HasIndex(rules[1]) /\ ~HasVal(rules[1])
    /\ \E k \in 1..Len(rules[1].allOf.r) : HasIndex(rules[1].allOf.r[k])
    /\ \A k \in 1..Len(rules[1].allOf.r) : ~HasAllOf(rules[1].allOf.r[k])

(* C24 as stated: the decision of an ignoreRowIf allOf group with an index *)
(* rule is the result of the group's index predicate alone.                *)
C24_GroupIndexAlone ==
    (Ran("ignoreRowIf") /\ IsGroupWithIndex(ops[1].param.r))
        => LET group == ops[1].param.r[1].allOf.r
           IN  /\ Returned
               /\ \A i \in RowIndices :
                      ~Removed(i) <=> IndexPredicate(group, i)

(* C24: the decision of an ignoreRowIf allOf group with an index rule is   *)
(* the result of the group's index predicate alone when the group has no   *)
(* value sub-rule; when it has, the group keeps a row iff the index        *)
(* predicate holds for the row index or some value sub-rule does not find  *)
(* its value in the row.                                                   *)
C24_GroupIndexAndValues ==
    (Ran("ignoreRowIf") /\ IsGroupWithIndex(ops[1].param.r))
        => LET group == ops[1].param.r[1].allOf.r
               ValueKeeps(row) ==
                   \E k \in 1..Len(group) :
                       HasVal(group[k]) /\ ~ValueFound(group[k], row)
           IN  /\ Returned
               /\ \A i \in RowIndices :
                      ~Removed(i)
                          <=> \/ IndexPredicate(group, i)
                              \/ ValueKeeps(snapshot[i + 1])

(* The group {index 0, col 0 = 'a'} has run on the rows ['a'] and ['1']    *)
(* swapped: row 0 is ['1'], which the index predicate rejects and the      *)
(* value sub-rule keeps; a group of the index rule alone removes it.       *)
C24_Witness ==
    /\ Ran("ignoreRowIf") /\ Returned
    /\ ops[1].param.r = <<AllOfRule(<<IndexRule(Num(0)),
                                      ColValRule(Num(0), A)>>)>>
    /\ snapshot = <<<<One>>, <<A>>>>
    /\ ~IndexPredicate(ops[1].param.r[1].allOf.r, 0)
    /\ ~Removed(0)
    /\ ~Removed(1)
    /\ keptRowIndices(snapshot, <<AllOfRule(<<IndexRule(Num(0))>>)>>, 0) = <<1>>

(* The results the predicates of a top-level rule list return for a row,   *)
(* true meaning keep: the index predicate's, if the list has an index      *)
(* rule, one per value rule, and one per nested group.                     *)
GroupKeeps(group, row, i) ==
    \/ (\E k \in 1..Len(group) : HasIndex(group[k])) /\ IndexPredicate(group, i)
    \/ \E k \in 1..Len(group) : HasVal(group[k]) /\ ~ValueFound(group[k], row)

PredicateResults(rules, row, i) ==
    {IndexPredicate(rules, i) : k \in {j \in 1..Len(rules) : HasIndex(rules[j])}}
        \cup {~ValueFound(rules[k], row) :
                 k \in {j \in 1..Len(rules) : HasVal(rules[j])}}
        \cup {GroupKeeps(rules[k].allOf.r, row, i) :
                 k \in {j \in 1..Len(rules) : HasAllOf(rules[j])}}

FlatGroups(rules) ==
    \A k \in 1..Len(rules) :
        HasAllOf(rules[k])
            => \A j \in 1..Len(rules[k].allOf.r) : ~HasAllOf(rules[k].allOf.r[j])

(* C25 as stated: the top level of ignoreRowIf combines in OR mode, a row  *)
(* being removed only if every predicate of the list returned false.       *)
C25_TopLevelOrMode ==
    (Ran("ignoreRowIf") /\ ops[1].param.r # <<>> /\ FlatGroups(ops[1].param.r))
        => /\ Returned
           /\ \A i \in RowIndices :
                  Removed(i)
                      <=> PredicateResults(ops[1].param.r, snapshot[i + 1], i)
                              = {FALSE}

(* C25: the top level of ignoreRowIf combines in AND mode: a row is kept   *)
(* iff the index predicate, every value predicate and every nested-group   *)
(* predicate returned true for it, and removed as soon as one returned     *)
(* false.                                                                  *)
C25_TopLevelAndMode ==
    (Ran("ignoreRowIf") /\ FlatGroups(ops[1].param.r))
        => /\ Returned
           /\ \A i \in RowIndices :
                  Removed(i)
                      <=> FALSE \in PredicateResults(ops[1].param.r,
                                                     snapshot[i + 1], i)

(* The list {index 0}, {col 1 = '1'} has removed row 0, for which the      *)
(* index predicate returned false and the value predicate true.            *)
C25_Witness ==
    /\ Ran("ignoreRowIf") /\ Returned
    /\ ops[1].param.r = <<IndexRule(Num(0)), ColValRule(Num(1), One)>>
    /\ Len(snapshot) >= 1
    /\ PredicateResults(ops[1].param.r, snapshot[1], 0) = {FALSE, TRUE}
    /\ Removed(0)

(* Strictly increasing sequences of n positions of a sequence of length m. *)
Increasing(n, m) ==
    {f \in [1..n -> 1..m] : \A j, k \in 1..n : j < k => f[j] < f[k]}

(* C26: the output of ignoreRowIf is an order-preserving subsequence of    *)
(* the input rows: each output row is an input row with its cells as they  *)
(* were, the kept rows are in their original order, and no row is there    *)
(* more often than in the input.                                           *)
C26_RowSubsequence ==
    (Ran("ignoreRowIf") /\ Returned)
        => /\ Len(cur) <= Len(input)
           /\ \E f \in Increasing(Len(cur), Len(input)) :
                  \A k \in 1..Len(cur) :
                      /\ cur[k] = input[f[k]]
                      /\ heap[cur[k]] = snapshot[f[k]]

(* Two rows of different cells were both kept, in their order, by a list   *)
(* of two value rules.                                                     *)
C26_Witness ==
    /\ Ran("ignoreRowIf") /\ Returned
    /\ ops[1].param.r = <<ColValRule(Num(1), One), ColValRule(Num(1), One)>>
    /\ Len(cur) = 2
    /\ snapshot[1] # snapshot[2]
    /\ Deref(heap, cur) = snapshot

(* Every operation of the call is one of the five and does not throw on    *)
(* the table the operations before it produce.                             *)
AllSucceed ==
    \A k \in 1..Len(ops) :
        /\ ops[k].operation \in refineStrategyKeys
        /\ ~executeOperationThrows(ops[k],
                                   applyAll(SubSeq(ops, 1, k - 1), snapshot))

(* C27: in a refine call whose operations are all recognized and succeed,  *)
(* onSuccess is invoked exactly once, with the final table, and onError    *)
(* never; with an empty operation list the table delivered is the input    *)
(* table.                                                                  *)
C27_SuccessOnce ==
    AllSucceed
        => /\ status \in {"running", "success"}
           /\ errArg = Undef
           /\ (status = "running" /\ pc > Len(ops)) => ENABLED Finish
           /\ status = "running" => result = <<>>
           /\ status = "success"
                  => /\ ~ENABLED Finish
                     /\ ~ENABLED ExecuteOperation
                     /\ Len(executed) = Len(ops)
                     /\ result = cur
                     /\ mutated = "none"
                            => Deref(heap, result) = applyAll(ops, snapshot)
                     /\ ops = <<>>
                            => /\ result = input
                               /\ mutated = "none"
                                      => Deref(heap, result) = snapshot

(* A call of ignoreRowIf then replace has handed onSuccess a table that is *)
(* not the one it was given.                                               *)
C27_Witness ==
    /\ AllSucceed
    /\ status = "success"
    /\ mutated = "none"
    /\ Len(ops) = 2
    /\ ops[1].operation = "ignoreRowIf"
    /\ ops[2].operation = "replace"
    /\ Deref(heap, result) # snapshot
    /\ Deref(heap, result) # <<>>

(* C28: a rule group with nothing to match removes nothing: ignoreRowIf    *)
(* with an empty rule list keeps every row, and an allOf group with an     *)
(* empty list of sub-rules removes no row in ignoreRowIf and no column in  *)
(* ignoreColIf.                                                            *)
C28_EmptyGroupRemovesNothing ==
    /\ (Ran("ignoreRowIf")
           /\ ops[1].param.r \in {<<>>, <<AllOfRule(<<>>)>>})
          => Returned /\ cur = input
    /\ (Ran("ignoreColIf") /\ ops[1].param.r = <<AllOfRule(<<>>)>>
           /\ snapshot # <<>>)
          => Returned /\ Deref(heap, cur) = snapshot

(* The part of C28 about the empty rule list. *)
C28_EmptyListKeepsRows ==
    (Ran("ignoreRowIf") /\ ops[1].param.r = <<>>)
        => Returned /\ cur = input

(* A filter has run on a table with zero rows. *)
RanOnEmptyTable(name) == Ran(name) /\ snapshot = <<>>

(* C30: ignoreColIf and ignoreRowIf on a table with zero rows complete     *)
(* without throwing and deliver an empty table, for every rule list.       *)
C30_FiltersOnEmptyTable ==
    (RanOnEmptyTable("ignoreRowIf") \/ RanOnEmptyTable("ignoreColIf"))
        => /\ Returned
           /\ cur = <<>>
           /\ status = "success" => result = <<>>

(* The part of C30 about ignoreRowIf. *)
C30_RowFilterOnEmptyTable ==
    RanOnEmptyTable("ignoreRowIf")
        => /\ Returned
           /\ cur = <<>>
           /\ status = "success" => result = <<>>

(* ignoreColIf throws on the table with zero rows under every rule list. *)
C30_ColFilterThrowsOnEmptyTable ==
    RanOnEmptyTable("ignoreColIf") => status = "thrown"

-----------------------------------------------------------------------------
(* The rule combiner on its own: a caller constructs one, reports results  *)
(* and asks for the decision, in any order.                                *)

RuleCombiner(combineWithAnd) ==
    [combineWithAnd |-> combineWithAnd, clauseResults |-> <<>>,
     kept |-> Undef]

(* No refine call is in progress. *)
NotCalled ==
    /\ heap = <<>>
    /\ input = <<>>
    /\ snapshot = <<>>
    /\ ops = <<>>
    /\ pc = 0
    /\ cur = <<>>
    /\ status = "idle"
    /\ result = <<>>
    /\ errArg = Undef
    /\ executed = <<>>
    /\ fed = <<>>
    /\ mutated = "none"
    /\ legacy = Undef

InitCombiner ==
    /\ NotCalled
    /\ \E combineWithAnd \in BOOLEAN : combiner = RuleCombiner(combineWithAnd)

reportShouldKeep(clauseResult) ==
    /\ Len(combiner.clauseResults) < MaxReports
    /\ combiner' = [combiner EXCEPT
                       !.clauseResults = Append(@, clauseResult)]
    /\ UNCHANGED <<heap, input, snapshot, ops, pc, cur, status, result,
                   errArg, executed, fed, mutated, legacy>>

(* A call of shouldKeep; kept holds what it returned and how many results  *)
(* had been reported by then.                                              *)
ShouldKeep ==
    /\ combiner' = [combiner EXCEPT
                       !.kept = [value |-> shouldKeep(combiner.combineWithAnd,
                                                      combiner.clauseResults),
                                 after |-> Len(combiner.clauseResults)]]
    /\ UNCHANGED <<heap, input, snapshot, ops, pc, cur, status, result,
                   errArg, executed, fed, mutated, legacy>>

ReportShouldKeep == \E clauseResult \in BOOLEAN : reportShouldKeep(clauseResult)

NextCombiner == ReportShouldKeep \/ ShouldKeep

SpecCombiner == InitCombiner /\ [][NextCombiner]_vars

(* shouldKeep has returned since the last report. *)
Decided ==
    /\ combiner # Undef
    /\ combiner.kept # Undef
    /\ combiner.kept.after = Len(combiner.clauseResults)

IsPermutation(p, q) ==
    /\ Len(p) = Len(q)
    /\ \A b \in BOOLEAN :
           Cardinality({i \in 1..Len(p) : p[i] = b})
               = Cardinality({i \in 1..Len(q) : q[i] = b})

(* C23: after any sequence of reports, shouldKeep returns in AND mode true *)
(* iff no reported result was false and in OR mode true iff at least one   *)
(* reported result was true, and every permutation of the reported results *)
(* gets the same decision.                                                 *)
C23_CombinerDecision ==
    Decided
        => LET reported == combiner.clauseResults
               value == combiner.kept.value
           IN  /\ combiner.combineWithAnd
                      => (value <=> \A i \in 1..Len(reported) : reported[i])
               /\ ~combiner.combineWithAnd
                      => (value <=> \E i \in 1..Len(reported) : reported[i])
               /\ \A p \in SeqsUpTo(BOOLEAN, MaxReports) :
                      IsPermutation(p, reported)
                          => shouldKeep(combiner.combineWithAnd, p) = value

(* An OR-mode combiner kept a row after the reports false, true, false,    *)
(* and an AND-mode combiner would not have.                                *)
C23_Witness ==
    /\ Decided
    /\ ~combiner.combineWithAnd
    /\ combiner.clauseResults = <<FALSE, TRUE, FALSE>>
    /\ combiner.kept.value = TRUE
    /\ ~shouldKeep(TRUE, combiner.clauseResults)

-----------------------------------------------------------------------------
(* The row filter outside lib: src/row_filter.js over src/util.js.  Names  *)
(* of util.js carry the prefix util_, names of src/row_filter.js the       *)
(* prefix row_filter_; what the two files share word for word with the     *)
(* lib modules (the value functions, the rule combiner, the collection of  *)
(* the literal indices) is the same operator.                              *)

(* util.createKeepIndexChecker while it builds: for an index given as a    *)
(* string it calls createEqualityEvaluator by its bare name, which is      *)
(* bound nowhere in util.js (the function is a property of exports), so    *)
(* the call is a ReferenceError.                                           *)
util_createKeepIndexCheckerThrows(rules) ==
    \E i \in 1..Len(rules) :
        HasIndex(rules[i]) /\ rules[i].index.t = "str"

(* util.createKeepIndexChecker returns null for a list without index rule. *)
util_createKeepIndexCheckerIsNull(rules) ==
    Len(Filter(rules, HasIndex)) = 0

(* The checker of a list with index rules; no evaluator was ever pushed.   *)
util_keepIndexChecker(rules, rowIndex) ==
    LET ignoreRowRules == Filter(rules, HasIndex)
        ignoreRows == ignoreRowsOf(ignoreRowRules)
        ignoreByIndex == Contains(ignoreRows, rowIndex)
        numEvaluators == 0
    IN  ~ignoreByIndex /\ numEvaluators = 0

RECURSIVE row_filter_createRowKeepFuncThrows(_)
row_filter_createRowKeepFuncThrows(rules) ==
    \/ util_createKeepIndexCheckerThrows(rules)
    \/ \E i \in 1..Len(rules) :
           HasAllOf(rules[i])
               /\ row_filter_createRowKeepFuncThrows(rules[i].allOf.r)

RECURSIVE row_filter_shouldKeepFunc(_, _, _, _)
row_filter_shouldKeepFunc(rules, combinedWithAnd, row, rowIndex) ==
    LET hasIgnoreRules == ~util_createKeepIndexCheckerIsNull(rules)
        ignoreValueRules == Filter(rules, HasVal)
        ignoreCombinedValueRules == Filter(rules, HasAllOf)
        valueResults ==
            [i \in 1..Len(ignoreValueRules) |->
                keepRowValFunc(ignoreValueRules[i], row)]
        combinedResults ==
            [i \in 1..Len(ignoreCombinedValueRules) |->
                row_filter_shouldKeepFunc(ignoreCombinedValueRules[i].allOf.r,
                                          FALSE, row, rowIndex)]
        funcResults == valueResults \o combinedResults
    IN  IF ~hasIgnoreRules
        THEN shouldKeep(combinedWithAnd, funcResults)
        ELSE IF Len(funcResults) = 0
        THEN util_keepIndexChecker(rules, rowIndex)
        ELSE shouldKeep(combinedWithAnd,
                        <<util_keepIndexChecker(rules, rowIndex)>>
                            \o funcResults)

RECURSIVE row_filter_keptRowIndices(_, _, _)
row_filter_keptRowIndices(targetRows, params, rowIndex) ==
    IF rowIndex >= Len(targetRows) THEN <<>>
    ELSE (IF row_filter_shouldKeepFunc(params, TRUE, targetRows[rowIndex + 1],
                                       rowIndex)
          THEN <<rowIndex>> ELSE <<>>)
         \o row_filter_keptRowIndices(targetRows, params, rowIndex + 1)

(* ignoreRowIf of src/row_filter.js, called on the table and the rule list *)
(* of the refine call: it throws, or hands onSuccess the rows it kept.     *)
row_filter_ignoreRowIf ==
    /\ legacy = Undef
    /\ Len(ops) = 1
    /\ ops[1].operation = "ignoreRowIf"
    /\ LET params == ops[1].param.r
           kept == row_filter_keptRowIndices(Deref(heap, input), params, 0)
       IN  legacy' = IF row_filter_createRowKeepFuncThrows(params)
                     THEN [status |-> "thrown", t |-> <<>>]
                     ELSE [status |-> "success",
                           t |-> [i \in 1..Len(kept) |-> input[kept[i] + 1]]]
    /\ UNCHANGED <<heap, input, snapshot, ops, pc, cur, status, result,
                   errArg, executed, fed, mutated, combiner>>

InitRowFilters ==
    \E table \in Tables : \E operation \in RowFilterOps :
        Called(table, <<operation>>)

NextRowFilters == ExecuteOperation \/ Finish \/ row_filter_ignoreRowIf

SpecRowFilters == InitRowFilters /\ [][NextRowFilters]_vars

(* Both implementations have run on the call's table and rule list. *)
BothRan == Ran("ignoreRowIf") /\ legacy # Undef

C29_SameRowsWithoutInequalities ==
    (BothRan /\ ~row_filter_createRowKeepFuncThrows(ops[1].param.r))
        => /\ legacy.status = "success"
           /\ status # "thrown"
           /\ legacy.t = cur

====
